---- MODULE Spec2Model ----
(***************************************************************************)
(* State-machine model of the AutoMCP task-orchestration workflow:        *)
(* planner -> classifier -> executors -> reflection, wired by the         *)
(* conditional edges of src/workflow/graph.py.                            *)
(*                                                                         *)
(* Modelling conventions                                                   *)
(*  - current_step_index is 0-based as in the code; the step at the       *)
(*    cursor is plan[current_step_index + 1].                             *)
(*  - Optional fields use the string "None" for Python's None.            *)
(*  - Every node is one action (its body plus the merge of the dict it    *)
(*    returns into the run state); every conditional edge is one action   *)
(*    that evaluates the routing function and moves pc to the target.     *)
(*  - Keys a node returns that AgentState does not declare (next_action,  *)
(*    plan_retry_count) are either merged into the run state or dropped   *)
(*    by the graph runtime; the model explores both (keepsUndeclaredKeys).*)
(*  - External collaborators (LLMs, RAG, MCP servers, sandbox) are        *)
(*    nondeterministic outcomes drawn with \E.                            *)
(***************************************************************************)
EXTENDS Integers, Sequences, FiniteSets, TLC

\* ---------------------------------------------------------------- bounds
MaxSteps == 2                 \* longest step list the Planner returns
MaxMsgs == 9                  \* cap on the length of the message log
MaxSubtaskRetriesCfg == 3     \* largest configured MAX_SUBTASK_RETRIES
MaxPlanRetriesCfg == 2        \* largest configured MAX_PLAN_RETRIES

\* ------------------------------------------------------ program constants
StepDefaultMaxRetries == 3    \* TaskStep.max_retries default
MAX_SUBTASK_RETRIES == 3      \* Settings.MAX_SUBTASK_RETRIES default
MAX_PLAN_RETRIES == 2         \* Settings.MAX_PLAN_RETRIES default

Absent == -1                  \* state.get(key) finds no such key

TaskCategory == {"local_mcp", "web_mcp", "code_to_mcp", "pure_llm"}

TaskStatus == {"pending", "running", "completed", "failed", "skipped"}

ExecutorNodes ==
  {"executor", "web_executor", "code_generator", "code2mcp_executor",
   "llm_responder"}

CodeToMCPMode == {"internal", "code2mcp", "auto"}

DEFAULT_CODE_TO_MCP_MODE == "auto"

VARIABLES
  pc,                   \* node about to run, or edge about to be evaluated
  plan,                 \* state["plan"]: sequence of TaskStep records
  current_step_index,   \* state["current_step_index"]
  messages,             \* state["messages"]: sequence of message kinds
  next_action,          \* state.get("next_action"), "absent" when no key
  plan_retry_count,     \* state.get("plan_retry_count"), Absent when no key
  plan_status,          \* ExecutionPlan.status of the Planner's last output
  settings,             \* config.settings.Settings values of this process
  code2mcp_failed,      \* history: the cursor step last failed in Code2MCP
  run,                  \* which graph.ainvoke call the channels belong to
  other,                \* channels of the other, suspended graph.ainvoke call
  keepsUndeclaredKeys,  \* does the runtime merge keys AgentState lacks
  nextId,               \* ids handed out to TaskSteps so far
  dispatches,           \* history: executor invocations per step of the plan
  cache,                \* MCPSource.cache: sequence of server names
  cache_time,           \* MCPSource.cache_time in hours, Absent when None
  cache_file,           \* content of the file at MCPSource.cache_file
  now,                  \* datetime.now() in hours
  mcp_pc,               \* position of the get_servers call on the source
  force_refresh,        \* argument of the current or last get_servers call
  fetched,              \* value the last fetch_servers call returned
  returned,             \* value the last get_servers call returned
  io                    \* history: file and network accesses of that call

mcpVars == <<cache, cache_time, cache_file, now, mcp_pc, force_refresh,
             fetched, returned, io>>

vars == <<pc, plan, current_step_index, messages, next_action,
          plan_retry_count, plan_status, settings, keepsUndeclaredKeys,
          nextId, dispatches, code2mcp_failed, run, other, mcpVars>>

\* The process has built no MCPSource.
NoFile == [kind |-> "absent", cache_time |-> Absent, servers |-> <<>>]

SourceUnused ==
  /\ cache = <<>>
  /\ cache_time = Absent
  /\ cache_file = NoFile
  /\ now = 0
  /\ mcp_pc = "none"
  /\ force_refresh = FALSE
  /\ fetched = <<>>
  /\ returned = <<>>
  /\ io = <<>>

\* ------------------------------------------------------------- data model
\* Mutant: a new step starts with one retry already counted.
TaskStep_retryCountOne(id) ==
  [id |-> id,
   requirements |-> <<"planner requirement">>,
   task_type |-> "None",
   status |-> "pending",
   result |-> "None",
   error |-> "None",
   retry_count |-> 1,
   max_retries |-> StepDefaultMaxRetries]

\* TaskStep as the Planner's structured output creates it.
TaskStep(id) ==
  [id |-> id,
   requirements |-> <<"planner requirement">>,
   task_type |-> "None",
   status |-> "pending",
   result |-> "None",
   error |-> "None",
   retry_count |-> 0,
   max_retries |-> StepDefaultMaxRetries]

\* Mutant: the reducer keeps only the update.
add_messages_overwrite(old_message, new_messages) == new_messages

\* The reducer of the messages channel.
add_messages(old_message, new_messages) == old_message \o new_messages

\* Merge of a returned undeclared key into the run state.
MergeUndeclared(old, new) == IF keepsUndeclaredKeys THEN new ELSE old

StepAt(p, idx) == p[idx + 1]

\* Mutant: the update lands on every step of the plan.
SetStep_everyStep(p, idx, s) == [i \in DOMAIN p |-> s]

SetStep(p, idx, s) == [p EXCEPT ![idx + 1] = s]

InRange(p, idx) == idx >= 0 /\ idx < Len(p)

\* Mutant: the success path skips a step.
CursorAfterSuccess_skip(idx) == idx + 2

\* Cursor an executor adapter returns after a successful step.
CursorAfterSuccess(idx) == idx + 1

\* Mutant: the failure path steps back to redo the previous step.
CursorAfterFailure_back(idx) == IF idx > 0 THEN idx - 1 ELSE idx

\* Cursor left in the run state by an adapter's failure path, which returns
\* no current_step_index key.
\* Mutant: the failure path advances the cursor like the success path.
CursorAfterFailure_advance(idx) == idx + 1

CursorAfterFailure(idx) == idx

\* Level-1 guard of reflection_node.
Level1Guard(current_step, max_sub_retries) ==
  current_step.retry_count < max_sub_retries

\* Mutant: off-by-one in the Level-2 guard.
Level2Guard_offByOne(max_plan_retries, cfg) ==
  max_plan_retries <= cfg.MAX_PLAN_RETRIES

\* Level-2 guard of reflection_node; max_plan_retries is the local of that
\* name, read from the plan_retry_count key.
Level2Guard(max_plan_retries, cfg) ==
  max_plan_retries < cfg.MAX_PLAN_RETRIES

\* Mutant: the diagnostics replace the requirements instead of extending them.
AppendDiagnostics_replace(requirements) ==
  <<"Previous Error", "Fix Hint">>

\* The two appends reflection_node makes to the step's requirements.
AppendDiagnostics(requirements) ==
  requirements \o <<"Previous Error", "Fix Hint">>

\* The if / elif / else chain of reflection_node: which level handles the
\* failure.
ReflectionLevel(current_step, max_sub_retries, max_plan_retries, cfg) ==
  IF Level1Guard(current_step, max_sub_retries) THEN "retry"
  ELSE IF Level2Guard(max_plan_retries, cfg) THEN "replan"
  ELSE "fail"

\* Mutant: the Level-1 path forgets to reset the status.
RetryStep_keepsFailed(current_step) ==
  [current_step EXCEPT !.requirements = AppendDiagnostics(@),
                       !.retry_count = @ + 1]

\* The step as the Level-1 path of reflection_node leaves it.
RetryStep(current_step) ==
  [current_step EXCEPT !.requirements = AppendDiagnostics(@),
                       !.retry_count = @ + 1,
                       !.status = "pending"]

\* ---------------------------------------------------------------- routers
\* Mutant: an unmatched category falls through to the terminal label.
router_node_failClosed(p, idx) ==
  IF Len(p) = 0 \/ idx >= Len(p) THEN "__end__"
  ELSE LET task_type == StepAt(p, idx).task_type IN
       IF task_type = "local_mcp" THEN "executor"
       ELSE IF task_type = "web_mcp" THEN "web_executor"
       ELSE IF task_type = "code_to_mcp" THEN "code_generator"
       ELSE IF task_type = "pure_llm" THEN "llm_responder"
       ELSE "__end__"

\* Mutant: the bounds check is missing and an out-of-range cursor falls to
\* the default executor.
router_node_noBoundsCheck(p, idx) ==
  IF Len(p) = 0 \/ idx >= Len(p) THEN "llm_responder"
  ELSE LET task_type == StepAt(p, idx).task_type IN
       IF task_type = "local_mcp" THEN "executor"
       ELSE IF task_type = "web_mcp" THEN "web_executor"
       ELSE IF task_type = "code_to_mcp" THEN "code_generator"
       ELSE IF task_type = "pure_llm" THEN "llm_responder"
       ELSE "llm_responder"

router_node(p, idx) ==
  IF Len(p) = 0 \/ idx >= Len(p) THEN "__end__"
  ELSE LET task_type == StepAt(p, idx).task_type IN
       IF task_type = "local_mcp" THEN "executor"
       ELSE IF task_type = "web_mcp" THEN "web_executor"
       ELSE IF task_type = "code_to_mcp" THEN "code_generator"
       ELSE IF task_type = "pure_llm" THEN "llm_responder"
       ELSE "llm_responder"

\* mode is the value of DEFAULT_CODE_TO_MCP_MODE the function reads.
\* Mutant: the function returns the name of the mode instead of a node.
get_code_to_mcp_node_modeName(cfg, mode) ==
  IF ~cfg.ENABLE_CODE2MCP THEN "code_generator"
  ELSE mode

get_code_to_mcp_node(cfg, mode) ==
  IF ~cfg.ENABLE_CODE2MCP THEN "code_generator"
  ELSE IF mode = "code2mcp" THEN "code2mcp_executor"
  ELSE IF mode = "internal" THEN "code_generator"
  ELSE "code2mcp_executor"

dynamic_router_node(p, idx, cfg, mode) ==
  LET result == router_node(p, idx) IN
  IF result = "code_generator" THEN get_code_to_mcp_node(cfg, mode) ELSE result

executor_router(p, idx) ==
  IF idx >= Len(p) THEN "__end__"
  ELSE IF idx > 0 /\ StepAt(p, idx - 1).status = "completed" THEN "classifier"
  ELSE IF StepAt(p, idx).status = "failed" THEN "reflection"
  ELSE "__end__"

\* Mutant: an unmatched action falls back to a retry.
reflection_router_retryDefault(action) ==
  IF action = "retry_subtask" THEN "classifier"
  ELSE IF action = "replan" THEN "planner"
  ELSE IF action = "fail_final" THEN "__end__"
  ELSE "classifier"

reflection_router(action) ==
  IF action = "retry_subtask" THEN "classifier"
  ELSE IF action = "replan" THEN "planner"
  ELSE IF action = "fail_final" THEN "__end__"
  ELSE "__end__"

\* ------------------------------------------------------------------ Init
\* Value of other while no second call of graph.ainvoke is in progress.
NoRun == [pc |-> "none"]

Init ==
  /\ SourceUnused
  /\ pc = "planner"
  /\ plan = <<>>
  /\ current_step_index = 0
  /\ messages = <<"user task">>
  /\ next_action = "absent"
  /\ keepsUndeclaredKeys \in BOOLEAN
  /\ plan_retry_count \in (IF keepsUndeclaredKeys THEN {Absent, 0} ELSE {Absent})
  /\ plan_status = "None"
  /\ settings \in [MAX_SUBTASK_RETRIES : 0..MaxSubtaskRetriesCfg,
                   MAX_PLAN_RETRIES : 0..MaxPlanRetriesCfg,
                   ENABLE_CODE2MCP : BOOLEAN]
  /\ code2mcp_failed = FALSE
  /\ run = 1
  /\ other = NoRun
  /\ nextId = 0
  /\ dispatches = <<>>

\* ----------------------------------------------------------------- nodes
planner_node ==
  /\ pc = "planner"
  /\ Len(messages) < MaxMsgs
  /\ \E n \in -2..MaxSteps :
       IF n >= 0
       THEN \* chain.ainvoke returned an ExecutionPlan with n steps
            /\ plan' = [i \in 1..n |-> TaskStep(nextId + i)]
            /\ nextId' = nextId + n
            /\ dispatches' = [i \in 1..n |-> 0]
            /\ current_step_index' = 0
            /\ plan_status' = "pending"
            /\ messages' = add_messages(messages, <<"plan generated">>)
            /\ code2mcp_failed' = FALSE
            /\ pc' = "classifier"
       ELSE IF n = -1
       THEN \* chain.ainvoke raised inside the try block
            /\ messages' = add_messages(messages, <<"planning failed">>)
            /\ pc' = "classifier"
            /\ UNCHANGED <<plan, nextId, current_step_index, plan_status,
                           dispatches, code2mcp_failed>>
       ELSE \* building the LLM chain raised, before the try block
            /\ pc' = "raised"
            /\ UNCHANGED <<plan, nextId, current_step_index, plan_status,
                           dispatches, messages, code2mcp_failed>>
  /\ UNCHANGED <<next_action, plan_retry_count, settings, keepsUndeclaredKeys,
                 run, other, mcpVars>>

\* What the Ollama call can come back with: a JSON answer naming one of the
\* four categories, a JSON answer naming any other category, text that holds
\* no JSON, or an exception of the call itself.
ClassifierResponses ==
  TaskCategory \cup {"unknown_category", "unparsable", "call error"}

\* Mutant: the answer's category is taken as it comes, without validation.
ClassifierOutput_unvalidated(response) ==
  IF response \in {"unparsable", "call error"} THEN "raise" ELSE response

\* Parsing and validation of the answer: ClassifierOutput.category is a
\* TaskCategory, so anything else raises inside the try block.
ClassifierOutput(response) ==
  IF response \in TaskCategory THEN response ELSE "raise"

classifier_node ==
  /\ pc = "classifier"
  /\ IF current_step_index >= Len(plan)
     THEN UNCHANGED plan
     ELSE LET current_step == StepAt(plan, current_step_index) IN
          \E response \in ClassifierResponses :
            LET out == ClassifierOutput(response) IN
            plan' = SetStep(plan, current_step_index,
                      IF out # "raise"
                      THEN [current_step EXCEPT !.task_type = out]
                      ELSE [current_step EXCEPT
                              !.task_type = "pure_llm",
                              !.error = "Classification Error"])
  /\ pc' = "classifier_router"
  /\ UNCHANGED <<current_step_index, messages, next_action, plan_retry_count,
                 plan_status, settings, keepsUndeclaredKeys, nextId,
                 dispatches, code2mcp_failed, run, other, mcpVars>>

\* Shared shape of the five executor adapters.  outcomes is the set of
\* backend outcomes of the adapter: "raise" is an exception inside its try
\* block, "setup raise" an exception while the backend is built before the
\* try block, anything else the text the backend returned.  clearsError
\* tells whether the success path assigns error = None.
ExecutorAdapter(outcomes, clearsError) ==
  /\ Len(messages) < MaxMsgs
  /\ IF Len(plan) = 0 \/ current_step_index >= Len(plan)
     THEN /\ messages' = add_messages(messages, <<"index out of range">>)
          /\ pc' = "executor_router"
          /\ UNCHANGED <<plan, current_step_index, dispatches, code2mcp_failed>>
     ELSE LET idx == current_step_index
              current_step == StepAt(plan, idx) IN
          \E out \in outcomes :
            /\ dispatches' = [dispatches EXCEPT ![idx + 1] = @ + 1]
            /\ IF out = "setup raise"
               THEN /\ plan' = SetStep(plan, idx,
                         [current_step EXCEPT !.status = "running"])
                    /\ pc' = "raised"
                    /\ UNCHANGED <<messages, current_step_index, code2mcp_failed>>
               ELSE IF out = "raise"
               THEN /\ plan' = SetStep(plan, idx,
                         [current_step EXCEPT !.status = "failed",
                                              !.error = "execution error"])
                    /\ messages' = add_messages(messages, <<"step error">>)
                    /\ current_step_index' = CursorAfterFailure(idx)
                    /\ code2mcp_failed' = (pc = "code2mcp_executor")
                    /\ pc' = "executor_router"
               ELSE /\ plan' = SetStep(plan, idx,
                         [current_step EXCEPT
                            !.result = out,
                            !.status = "completed",
                            !.error = IF clearsError THEN "None" ELSE @])
                    /\ current_step_index' = CursorAfterSuccess(idx)
                    /\ code2mcp_failed' = FALSE
                    /\ messages' = add_messages(messages, <<"step completed">>)
                    /\ pc' = "executor_router"
  /\ UNCHANGED <<next_action, plan_retry_count, plan_status, settings,
                 keepsUndeclaredKeys, nextId, run, other, mcpVars>>

\* Text connect_and_execute returns when the remote server lists no tools.
NoToolsText == "Error: Remote server has no tools."

\* Text SandboxExecutor returns when the generated code does not parse or
\* raises while it runs.
ExecutionErrorText == "Execution Error"

executor_node ==
  /\ pc = "executor"
  /\ ExecutorAdapter({"output", "raise", "setup raise"}, TRUE)

web_executor_node ==
  /\ pc = "web_executor"
  /\ ExecutorAdapter({"output", NoToolsText, "raise"}, FALSE)

code_generator_node ==
  /\ pc = "code_generator"
  /\ ExecutorAdapter({"output", ExecutionErrorText, "raise"}, FALSE)

code2mcp_executor_node ==
  /\ pc = "code2mcp_executor"
  /\ ExecutorAdapter({"output", "raise"}, FALSE)

llm_responder_node ==
  /\ pc = "llm_responder"
  /\ ExecutorAdapter({"output", "raise"}, FALSE)

reflection_node ==
  /\ pc = "reflection"
  /\ Len(messages) < MaxMsgs
  /\ LET idx == current_step_index
         current_step == StepAt(plan, idx)
         max_sub_retries == settings.MAX_SUBTASK_RETRIES
         max_plan_retries == IF plan_retry_count = Absent
                             THEN settings.MAX_PLAN_RETRIES
                             ELSE plan_retry_count
         level == ReflectionLevel(current_step, max_sub_retries,
                                  max_plan_retries, settings)
     IN
     IF level = "retry"
     THEN \E analysis \in {"hint", "raise"} :
            IF analysis = "raise"
            THEN \* the analysis call is not guarded: the node raises
                 /\ pc' = "raised"
                 /\ UNCHANGED <<plan, messages, next_action, plan_retry_count>>
            ELSE /\ plan' = SetStep(plan, idx, RetryStep(current_step))
                 /\ messages' = add_messages(messages, <<"retrying subtask">>)
                 /\ next_action' = MergeUndeclared(next_action, "retry_subtask")
                 /\ pc' = "reflection_router"
                 /\ UNCHANGED plan_retry_count
     ELSE IF level = "replan"
     THEN /\ plan_retry_count' =
               MergeUndeclared(plan_retry_count, max_plan_retries + 1)
          /\ messages' = add_messages(messages, <<"replan request">>)
          /\ next_action' = MergeUndeclared(next_action, "replan")
          /\ pc' = "reflection_router"
          /\ UNCHANGED plan
     ELSE /\ messages' = add_messages(messages, <<"retries exhausted">>)
          /\ next_action' = MergeUndeclared(next_action, "fail")
          /\ pc' = "reflection_router"
          /\ UNCHANGED <<plan, plan_retry_count>>
  /\ UNCHANGED <<current_step_index, plan_status, settings,
                 keepsUndeclaredKeys, nextId, dispatches, code2mcp_failed,
                 run, other, mcpVars>>

\* ----------------------------------------------------- conditional edges
\* The path maps handed to add_conditional_edges, from the labels a routing
\* function may return to the node entered; END is the node "__end__".
ClassifierPathMap ==
  [label \in ExecutorNodes \cup {"__end__"} |-> label]

\* Mutant: the executors' "classifier" label is wired straight to the local
\* executor, so the next step is executed without being classified.
ExecutorPathMap_skipClassifier ==
  [label \in {"classifier", "reflection", "__end__"} |->
     IF label = "classifier" THEN "executor" ELSE label]

ExecutorPathMap ==
  [label \in {"classifier", "reflection", "__end__"} |-> label]

ReflectionPathMap ==
  [label \in {"classifier", "planner", "__end__"} |-> label]

\* A label outside the map is a lookup error raised out of the run.
NodeOf(path_map, label) ==
  IF label \in DOMAIN path_map THEN path_map[label] ELSE "raised"

classifier_edge ==
  /\ pc = "classifier_router"
  /\ pc' = NodeOf(ClassifierPathMap,
                 dynamic_router_node(plan, current_step_index, settings,
                                     DEFAULT_CODE_TO_MCP_MODE))
  /\ UNCHANGED <<plan, current_step_index, messages, next_action,
                 plan_retry_count, plan_status, settings, keepsUndeclaredKeys,
                 nextId, dispatches, code2mcp_failed, run, other, mcpVars>>

\* Mutant: the router moves the cursor itself when it sends the run on to
\* the classifier.
executor_edge_advancesCursor ==
  /\ pc = "executor_router"
  /\ pc' = NodeOf(ExecutorPathMap,
                 executor_router(plan, current_step_index))
  /\ current_step_index' =
       IF pc' = "classifier" /\ current_step_index < MaxSteps
       THEN current_step_index + 1 ELSE current_step_index
  /\ UNCHANGED <<plan, messages, next_action,
                 plan_retry_count, plan_status, settings, keepsUndeclaredKeys,
                 nextId, dispatches, code2mcp_failed, run, other, mcpVars>>

executor_edge ==
  /\ pc = "executor_router"
  /\ pc' = NodeOf(ExecutorPathMap,
                 executor_router(plan, current_step_index))
  /\ UNCHANGED <<plan, current_step_index, messages, next_action,
                 plan_retry_count, plan_status, settings, keepsUndeclaredKeys,
                 nextId, dispatches, code2mcp_failed, run, other, mcpVars>>

reflection_edge ==
  /\ pc = "reflection_router"
  /\ pc' = NodeOf(ReflectionPathMap, reflection_router(next_action))
  /\ UNCHANGED <<plan, current_step_index, messages, next_action,
                 plan_retry_count, plan_status, settings, keepsUndeclaredKeys,
                 nextId, dispatches, code2mcp_failed, run, other, mcpVars>>

Next ==
  \/ planner_node
  \/ classifier_node
  \/ executor_node
  \/ web_executor_node
  \/ code_generator_node
  \/ code2mcp_executor_node
  \/ llm_responder_node
  \/ reflection_node
  \/ classifier_edge
  \/ executor_edge
  \/ reflection_edge

Spec == Init /\ [][Next]_vars

TypeOK ==
  /\ pc \in ExecutorNodes \cup
        {"planner", "classifier", "classifier_router", "executor_router",
         "reflection", "reflection_router", "__end__", "raised"}
  /\ current_step_index \in 0..MaxSteps
  /\ Len(messages) <= MaxMsgs
\* ------------------------------------------------- router-input specification
\* Inputs of the classifier's conditional edge drawn from bounded sets: a plan
\* whose steps carry any task_type (the four categories, None, or a string
\* outside the enum) and a cursor inside or just past the plan.
AnyTaskType == TaskCategory \cup {"None", "unknown_category"}

RouterInit ==
  /\ SourceUnused
  /\ pc = "classifier_router"
  /\ \E n \in 1..MaxSteps :
       /\ \E types \in [1..n -> AnyTaskType] :
            plan = [i \in 1..n |-> [TaskStep(i) EXCEPT !.task_type = types[i]]]
       /\ current_step_index \in 0..n
       /\ nextId = n
       /\ dispatches = [i \in 1..n |-> 0]
  /\ messages = <<"user task", "plan generated">>
  /\ next_action = "absent"
  /\ keepsUndeclaredKeys \in BOOLEAN
  /\ plan_retry_count = Absent
  /\ plan_status = "pending"
  /\ settings \in [MAX_SUBTASK_RETRIES : {MAX_SUBTASK_RETRIES},
                   MAX_PLAN_RETRIES : {MAX_PLAN_RETRIES},
                   ENABLE_CODE2MCP : BOOLEAN]
  /\ code2mcp_failed = FALSE
  /\ run = 1
  /\ other = NoRun

\* The edge is the only step: it applies the router to the drawn input.
RouterNext == classifier_edge

RouterSpec == RouterInit /\ [][RouterNext]_vars

\* -------------------------------------------- classifier-input specification
\* Inputs of classification drawn from bounded sets: a plan of 0..MaxSteps
\* steps carrying any earlier task_type, and a cursor inside or just past it.
ClassifierInit ==
  /\ SourceUnused
  /\ pc = "classifier"
  /\ \E n \in 0..MaxSteps :
       /\ \E types \in [1..n -> AnyTaskType] :
            plan = [i \in 1..n |-> [TaskStep(i) EXCEPT !.task_type = types[i]]]
       /\ current_step_index \in 0..n
       /\ nextId = n
       /\ dispatches = [i \in 1..n |-> 0]
  /\ messages = <<"user task", "plan generated">>
  /\ next_action = "absent"
  /\ keepsUndeclaredKeys \in BOOLEAN
  /\ plan_retry_count = Absent
  /\ plan_status = "pending"
  /\ settings \in [MAX_SUBTASK_RETRIES : {MAX_SUBTASK_RETRIES},
                   MAX_PLAN_RETRIES : {MAX_PLAN_RETRIES},
                   ENABLE_CODE2MCP : BOOLEAN]
  /\ code2mcp_failed = FALSE
  /\ run = 1
  /\ other = NoRun

\* Classification followed by its conditional edge.
ClassifierNext == classifier_node \/ classifier_edge

ClassifierSpec == ClassifierInit /\ [][ClassifierNext]_vars

\* ------------------------------------------------ replan-input specification
\* Inputs of planner_node on a replan drawn from bounded sets: a plan whose
\* first k >= 1 steps are completed and whose step at the cursor k has
\* failed, handed over by the Level-2 path of reflection_node.
ReplanInit ==
  /\ SourceUnused
  /\ pc = "planner"
  /\ \E n \in 2..MaxSteps : \E k \in 1..(n - 1) :
       /\ \E types \in [1..(k + 1) -> TaskCategory] :
            plan = [i \in 1..n |->
                     IF i <= k
                     THEN [TaskStep(i) EXCEPT !.task_type = types[i],
                                              !.status = "completed",
                                              !.result = "output"]
                     ELSE IF i = k + 1
                     THEN [TaskStep(i) EXCEPT !.task_type = types[i],
                                              !.status = "failed",
                                              !.error = "execution error"]
                     ELSE TaskStep(i)]
       /\ current_step_index = k
       /\ nextId = n
       /\ dispatches = [i \in 1..n |-> IF i <= k + 1 THEN 1 ELSE 0]
       /\ messages = <<"user task", "plan generated">>
                        \o [i \in 1..k |-> "step completed"]
                        \o <<"step error", "replan request">>
  /\ next_action = "replan"
  /\ keepsUndeclaredKeys = TRUE
  /\ plan_retry_count = 1
  /\ plan_status = "pending"
  /\ settings \in [MAX_SUBTASK_RETRIES : {0},
                   MAX_PLAN_RETRIES : 1..MaxPlanRetriesCfg,
                   ENABLE_CODE2MCP : BOOLEAN]
  /\ code2mcp_failed \in BOOLEAN
  /\ run = 1
  /\ other = NoRun

\* The planner is the only step: it is applied to the drawn input.
ReplanNext == planner_node

ReplanSpec == ReplanInit /\ [][ReplanNext]_vars

\* ---------------------------------------------------- two-run specification
\* Two calls of graph.ainvoke in one process, each with its own state dict,
\* interleaved by the event loop.  The variables hold the channels of the
\* call that is being stepped; other holds those of the suspended call.
Channels ==
  [pc |-> pc, plan |-> plan, current_step_index |-> current_step_index,
   messages |-> messages, next_action |-> next_action,
   plan_retry_count |-> plan_retry_count, plan_status |-> plan_status,
   nextId |-> nextId, dispatches |-> dispatches,
   code2mcp_failed |-> code2mcp_failed]

\* Mutant: a channel is a module-level global shared by both calls.
ResumeChannel_global(saved, live) == live

\* A channel of the graph belongs to one call of graph.ainvoke: the call
\* that resumes sees the value it had when it was suspended.
ResumeChannel(saved, live) == saved

\* The event loop suspends the call being stepped and resumes the other.  A
\* call is suspended only at an await, that is between a conditional edge
\* and the node it selected (the routers are plain functions), and a call
\* that has returned or raised is not resumed.
SwitchRun ==
  /\ other.pc \notin {"none", "__end__", "raised"}
  /\ pc \notin {"classifier_router", "executor_router", "reflection_router"}
  /\ run' = 3 - run
  /\ other' = Channels
  /\ pc' = ResumeChannel(other.pc, pc)
  /\ plan' = ResumeChannel(other.plan, plan)
  /\ current_step_index' =
       ResumeChannel(other.current_step_index, current_step_index)
  /\ messages' = ResumeChannel(other.messages, messages)
  /\ next_action' = ResumeChannel(other.next_action, next_action)
  /\ plan_retry_count' =
       ResumeChannel(other.plan_retry_count, plan_retry_count)
  /\ plan_status' = ResumeChannel(other.plan_status, plan_status)
  /\ nextId' = ResumeChannel(other.nextId, nextId)
  /\ dispatches' = ResumeChannel(other.dispatches, dispatches)
  /\ code2mcp_failed' =
       ResumeChannel(other.code2mcp_failed, code2mcp_failed)
  /\ UNCHANGED <<settings, keepsUndeclaredKeys, mcpVars>>

\* Both calls start from the initial state of the tests, with a message
\* history that leaves room for three more entries.
TwoRunInit ==
  /\ SourceUnused
  /\ pc = "planner"
  /\ plan = <<>>
  /\ current_step_index = 0
  /\ messages = [i \in 1..(MaxMsgs - 4) |-> "earlier message"]
                  \o <<"user task">>
  /\ next_action = "absent"
  /\ keepsUndeclaredKeys = FALSE
  /\ plan_retry_count = Absent
  /\ plan_status = "None"
  /\ settings \in [MAX_SUBTASK_RETRIES : {1},
                   MAX_PLAN_RETRIES : {MAX_PLAN_RETRIES},
                   ENABLE_CODE2MCP : BOOLEAN]
  /\ nextId = 0
  /\ dispatches = <<>>
  /\ code2mcp_failed = FALSE
  /\ run = 1
  /\ other = Channels

TwoRunNext == Next \/ SwitchRun

TwoRunSpec == TwoRunInit /\ [][TwoRunNext]_vars

\* ------------------------------------------------------------ vocabulary
IsPrefix(s, t) == Len(s) <= Len(t) /\ SubSeq(t, 1, Len(s)) = s

Count(seq, x) == Cardinality({i \in DOMAIN seq : seq[i] = x})

AllCompleted == \A i \in DOMAIN plan : plan[i].status = "completed"

CursorStep == StepAt(plan, current_step_index)

LastMessage == messages[Len(messages)]

\* Replans made so far in the run: the stored counter, 0 while the state has
\* no such key.
PlanRetriesSoFar == IF plan_retry_count = Absent THEN 0 ELSE plan_retry_count

\* The failed step at the cursor has used up the configured subtask retries.
SubtaskRetriesExhausted ==
  /\ InRange(plan, current_step_index)
  /\ CursorStep.retry_count >= settings.MAX_SUBTASK_RETRIES

\* ------------------------------------------------------------------ claims

\* C1: whenever an executor adapter has returned leaving the step at the
\* cursor failed (cursor at any index of the plan), the next node entered is
\* reflection and current_step_index is unchanged.
C1_FailedStepEntersReflection ==
  [][(/\ pc = "executor_router"
      /\ InRange(plan, current_step_index)
      /\ CursorStep.status = "failed")
     => (pc' = "reflection" /\ current_step_index' = current_step_index)]_vars

\* C2: no step's retry_count ever exceeds its own max_retries, and
\* reflection_node takes the Level-1 path exactly when
\* step.retry_count < step.max_retries.
C2_RetriesBoundedByStepMaxRetries ==
  [][/\ \A i \in DOMAIN plan' : plan'[i].retry_count <= plan'[i].max_retries
     /\ (pc = "reflection" /\ pc' = "reflection_router")
          => ((CursorStep.retry_count < CursorStep.max_retries)
               <=> (StepAt(plan', current_step_index).retry_count
                      = CursorStep.retry_count + 1))]_vars

\* C3: plan_retry_count never exceeds MAX_PLAN_RETRIES, and the number of
\* replan requests issued in a run never exceeds MAX_PLAN_RETRIES.
C3_ReplanBound ==
  /\ plan_retry_count # Absent => plan_retry_count <= settings.MAX_PLAN_RETRIES
  /\ Count(messages, "replan request") <= settings.MAX_PLAN_RETRIES

C3_Witness ==
  /\ pc = "reflection_router"
  /\ messages[Len(messages)] = "retries exhausted"
  /\ plan_retry_count >= 1
  /\ plan_retry_count = settings.MAX_PLAN_RETRIES
  /\ Count(messages, "replan request") = settings.MAX_PLAN_RETRIES

\* C4: between two Planner invocations current_step_index never decreases:
\* every transition other than the Planner's leaves it equal or larger.
C4_CursorMonotone ==
  [][pc # "planner" => current_step_index' >= current_step_index]_vars

C4_Witness ==
  /\ pc = "classifier"
  /\ current_step_index >= 1
  /\ InRange(plan, current_step_index)
  /\ CursorStep.status = "failed"
  /\ dispatches[current_step_index + 1] >= 2

\* C5: 0 <= current_step_index <= len(plan); the cursor equals len(plan)
\* exactly when every step of the plan is completed; reflection_node, the one
\* node that indexes plan[current_step_index] unguarded, is entered only with
\* the cursor in range.
C5_CursorInRange ==
  /\ 0 <= current_step_index
  /\ current_step_index <= Len(plan)
  /\ (current_step_index = Len(plan)) <=> AllCompleted
  /\ pc = "reflection" => InRange(plan, current_step_index)

C5_Witness ==
  /\ pc = "__end__"
  /\ Len(plan) >= 2
  /\ current_step_index = Len(plan)

\* C6: in every state observed after an executor adapter returns, a
\* completed step has no error and a failed step has an error.
C6_ExclusiveOutcome ==
  pc = "executor_router" =>
    \A i \in DOMAIN plan :
      /\ plan[i].status = "completed" => plan[i].error = "None"
      /\ plan[i].status = "failed" => plan[i].error # "None"

\* C7: for a step at an in-range cursor router_node never answers __end__;
\* an unrecognized or missing task_type is routed to llm_responder, which is
\* the node entered next; the four categories map to executor, web_executor,
\* code_generator and llm_responder.
C7_FailOpenRouting ==
  [][(pc = "classifier_router" /\ InRange(plan, current_step_index)) =>
       LET t == CursorStep.task_type
           label == router_node(plan, current_step_index) IN
       /\ label # "__end__"
       /\ t \notin TaskCategory =>
            (label = "llm_responder" /\ pc' = "llm_responder")
       /\ t = "local_mcp" => label = "executor"
       /\ t = "web_mcp" => label = "web_executor"
       /\ t = "code_to_mcp" => label = "code_generator"
       /\ t = "pure_llm" => label = "llm_responder"]_vars

C7_Witness ==
  /\ pc = "llm_responder"
  /\ InRange(plan, current_step_index)
  /\ CursorStep.task_type \notin TaskCategory
  /\ dispatches[current_step_index + 1] = 0

\* C8: no node removes, replaces or reorders requirements: across every
\* transition a step that stays in the plan keeps its old requirements as a
\* prefix, and after N Level-1 retries the list is the Planner's value
\* followed by the N pairs of diagnostics.
C8_RequirementsAppendOnly ==
  [][/\ \A i \in DOMAIN plan :
          (i \in DOMAIN plan' /\ plan'[i].id = plan[i].id)
            => IsPrefix(plan[i].requirements, plan'[i].requirements)
     /\ \A i \in DOMAIN plan' :
          /\ IsPrefix(TaskStep(0).requirements, plan'[i].requirements)
          /\ Len(plan'[i].requirements)
               = Len(TaskStep(0).requirements) + 2 * plan'[i].retry_count]_vars

C8_Witness ==
  \E i \in DOMAIN plan :
    /\ plan[i].retry_count = 2
    /\ plan[i].requirements =
         TaskStep(0).requirements
           \o <<"Previous Error", "Fix Hint", "Previous Error", "Fix Hint">>

\* C9: a run over a plan of N >= 1 steps whose executor invocations all
\* succeed ends with the cursor at N, every step completed, no reflection
\* and the ExecutionPlan status completed.
C9_AllSucceedRunCompletes ==
  (/\ pc = "__end__"
   /\ Len(plan) >= 1
   /\ Count(messages, "step error") = 0)
  => /\ current_step_index = Len(plan)
     /\ AllCompleted
     /\ Count(messages, "retrying subtask") = 0
     /\ Count(messages, "replan request") = 0
     /\ Count(messages, "retries exhausted") = 0
     /\ plan_status = "completed"

\* C10: a step that failed on its first k executor attempts, k below its
\* max_retries, and succeeded on attempt k+1 is completed with
\* retry_count = k and the cursor is past it.
C10_RetryThenSucceed ==
  \A i \in DOMAIN plan :
    (plan[i].status = "completed" /\ dispatches[i] - 1 < plan[i].max_retries)
      => (plan[i].retry_count = dispatches[i] - 1 /\ current_step_index >= i)

\* C11: when reflection is entered with the failed step's retries exhausted
\* and fewer replans made than MAX_PLAN_RETRIES allows, it appends exactly
\* one replan message, raises plan_retry_count by exactly one, emits
\* next_action = replan, and the node entered after it is the planner.
C11_ReplanOnExhaustedRetries ==
  [][/\ (/\ pc = "reflection"
         /\ SubtaskRetriesExhausted
         /\ PlanRetriesSoFar < settings.MAX_PLAN_RETRIES)
        => /\ messages' = messages \o <<"replan request">>
           /\ plan_retry_count' = PlanRetriesSoFar + 1
           /\ next_action' = "replan"
           /\ pc' = "reflection_router"
     /\ (pc = "reflection_router" /\ LastMessage = "replan request")
        => pc' = "planner"]_vars

C13_GuardOrder ==
  [][(pc = "reflection" /\ pc' = "reflection_router")
      => LET retryOpen == ~SubtaskRetriesExhausted
             replanOpen == PlanRetriesSoFar < settings.MAX_PLAN_RETRIES
             emitted == messages'[Len(messages')]
         IN /\ emitted = "replan request" => ~retryOpen
            /\ emitted = "retries exhausted" => (~retryOpen /\ ~replanOpen)
            /\ (retryOpen /\ replanOpen) => emitted = "retrying subtask"]_vars

C15_ReflectionRouting ==
  [][pc = "reflection_router"
      => /\ LastMessage = "retrying subtask"
              => (pc' = "classifier" /\ UNCHANGED <<plan, current_step_index>>)
         /\ LastMessage = "replan request" => pc' = "planner"
         /\ LastMessage = "retries exhausted" => pc' = "__end__"]_vars

\* C16: no executor adapter leaves a step in status running, whatever the
\* outcome of the invocation (success, backend failure, capability lookup
\* failure, failure while the backend is set up).
C16_NoStepLeftRunning ==
  \A i \in DOMAIN plan : plan[i].status # "running"

\* C17: when the backend succeeds, the adapter sets the step's result,
\* clears its error, marks it completed and returns the cursor plus one.
C17_SuccessEffects ==
  [][(/\ pc \in ExecutorNodes
      /\ InRange(plan, current_step_index)
      /\ StepAt(plan', current_step_index).status = "completed")
      => LET new == StepAt(plan', current_step_index)
         IN /\ new.result # "None"
            /\ new.error = "None"
            /\ current_step_index' = current_step_index + 1]_vars

\* C18: when the backend fails, a remote server that exposes no tools
\* included, the adapter sets the step's error, marks it failed and leaves
\* the cursor where it was.
C18_FailureEffects ==
  [][(/\ pc \in ExecutorNodes
      /\ InRange(plan, current_step_index)
      /\ pc' = "executor_router")
      => LET new == StepAt(plan', current_step_index)
         IN (new.status = "failed" \/ new.result = NoToolsText)
              => /\ new.status = "failed"
                 /\ new.error # "None"
                 /\ current_step_index' = current_step_index]_vars

\* C19: a failure of the generated code (it does not parse, or raises while
\* it runs) never leaves the step completed: no step is completed with the
\* sandbox's error text as its result, and the cursor has not moved past a
\* step that carries it.
C19_GeneratedCodeFailure ==
  /\ \A i \in DOMAIN plan :
        plan[i].result = ExecutionErrorText => plan[i].status = "failed"
  /\ \A i \in DOMAIN plan :
        plan[i].result = ExecutionErrorText => current_step_index < i

\* C20: every planner invocation that fails or returns no steps appends a
\* failure message, and the run then reaches its end without entering any
\* executor.
C20_PlannerFailureEndsRun ==
  [][/\ (pc = "planner" /\ nextId' = nextId)
        => /\ messages' = messages \o <<"planning failed">>
           /\ pc' = "classifier"
     /\ (/\ pc \in {"classifier", "classifier_router"}
         /\ (Len(plan) = 0 \/ LastMessage = "planning failed"))
        => pc' \in {"classifier_router", "__end__"}]_vars

\* C21: when classification or its dispatch edge is entered with the cursor
\* out of range (an empty plan included), the plan, the cursor and the log
\* are left as they are, nothing is raised, and the run goes from the
\* classifier to its edge and from there to the end.
C21_OutOfRangeResolvesToDone ==
  [][(/\ pc \in {"classifier", "classifier_router"}
      /\ current_step_index >= Len(plan))
      => /\ UNCHANGED <<plan, current_step_index, messages, dispatches>>
         /\ pc' = IF pc = "classifier" THEN "classifier_router"
                                       ELSE "__end__"]_vars

C21_Witness ==
  /\ pc = "__end__"
  /\ Len(plan) = 2
  /\ current_step_index = Len(plan)
  /\ \A i \in DOMAIN plan : plan[i] \in {[TaskStep(i) EXCEPT !.task_type = t] :
                                           t \in AnyTaskType}

\* C22: classification always leaves the step at the cursor with one of the
\* four categories; when the classifier fails (call error, unparsable answer,
\* category outside the four) that category is pure_llm with the error
\* recorded, the run goes on, and the edge dispatches the step to the
\* llm_responder.
C22_ClassifierFailureDefaults ==
  [][/\ (pc = "classifier" /\ InRange(plan, current_step_index))
        => LET new == StepAt(plan', current_step_index)
           IN /\ new.task_type \in TaskCategory
              /\ new.error = "Classification Error"
                   => new.task_type = "pure_llm"
              /\ pc' = "classifier_router"
     /\ (/\ pc = "classifier_router"
         /\ InRange(plan, current_step_index)
         /\ CursorStep.error = "Classification Error")
        => pc' = "llm_responder"]_vars

C22_Witness ==
  /\ pc = "llm_responder"
  /\ InRange(plan, current_step_index)
  /\ CursorStep.error = "Classification Error"
  /\ CursorStep.task_type = "pure_llm"

\* C23: a failure of an external collaborator (planner, classifier, executor
\* backend, reflection analysis) never leaves the node that called it as an
\* exception: no run ends in a raised node.
C23_NoExceptionPropagates == pc # "raised"

\* C24: whenever the run is at its end, the last message explains the
\* outcome: the completion message of the last executor when the whole plan
\* is completed, the planning-failure message when there is no plan, or the
\* exhaustion message of reflection.
C24_LastMessageExplainsOutcome ==
  pc = "__end__"
    => \/ /\ Len(plan) >= 1
          /\ current_step_index = Len(plan)
          /\ AllCompleted
          /\ LastMessage = "step completed"
       \/ /\ Len(plan) = 0
          /\ LastMessage = "planning failed"
       \/ /\ InRange(plan, current_step_index)
          /\ CursorStep.status = "failed"
          /\ LastMessage = "retries exhausted"

\* C25: the message log is append-only: across every transition, replans
\* included, the old log is a prefix of the new one.
C25_MessagesAppendOnly ==
  [][IsPrefix(messages, messages')]_vars

C25_Witness ==
  /\ pc = "classifier"
  /\ Len(messages) >= 5
  /\ SubSeq(messages, 1, 5) = <<"user task", "plan generated", "step error",
                                "replan request", "plan generated">>
  /\ Len(plan) >= 1

\* C26: a step is created with retry_count 0 and only the Level-1 path of
\* reflection changes it afterwards, by one, on the step at the cursor:
\* planner, classifier, executors, edges and the other paths of reflection
\* leave every step's retry_count alone.
C26_RetryCountOnlyLevel1 ==
  [][\A i \in DOMAIN plan' :
       IF \E j \in DOMAIN plan : plan[j].id = plan'[i].id
       THEN /\ i \in DOMAIN plan
            /\ plan[i].id = plan'[i].id
            /\ plan'[i].retry_count # plan[i].retry_count
                 => /\ pc = "reflection"
                    /\ i = current_step_index + 1
                    /\ plan'[i].retry_count = plan[i].retry_count + 1
                    /\ messages' = messages \o <<"retrying subtask">>
       ELSE /\ pc = "planner"
            /\ plan'[i].retry_count = 0]_vars

C26_Witness ==
  /\ pc = "classifier"
  /\ Len(plan) = 2
  /\ plan[1].retry_count = 2
  /\ plan[1].status = "completed"
  /\ plan[2].retry_count = 0
  /\ current_step_index = 1

\* C27: at most one step of the plan is running, and it is the step at the
\* cursor; steps are executed one at a time in list order: every step
\* before the cursor is completed and no step after it has been dispatched.
C27_OneStepAtATimeInOrder ==
  /\ Cardinality({i \in DOMAIN plan : plan[i].status = "running"}) <= 1
  /\ \A i \in DOMAIN plan :
       /\ plan[i].status = "running" => i = current_step_index + 1
       /\ i < current_step_index + 1 => plan[i].status = "completed"
       /\ i > current_step_index + 1
            => (dispatches[i] = 0 /\ plan[i].status = "pending")

C27_Witness ==
  /\ pc = "raised"
  /\ Len(plan) = 2
  /\ current_step_index = 1
  /\ plan[1].status = "completed"
  /\ plan[2].status = "running"
  /\ dispatches = <<1, 1>>

C30_AutoModeFallback ==
  [][(/\ pc = "classifier_router"
      /\ InRange(plan, current_step_index)
      /\ CursorStep.task_type = "code_to_mcp"
      /\ settings.ENABLE_CODE2MCP
      /\ DEFAULT_CODE_TO_MCP_MODE = "auto")
      => pc' = IF code2mcp_failed THEN "code_generator"
                                  ELSE "code2mcp_executor"]_vars

\* The fields of a call's state the claim C28 names.
RunFields(c) ==
  [cursor |-> c.current_step_index,
   retries |-> [i \in DOMAIN c.plan |-> c.plan[i].retry_count],
   plan_retry_count |-> c.plan_retry_count,
   next_action |-> c.next_action]

RunView(r) == RunFields(IF run = r THEN Channels ELSE other)

C31_ClassifiedBeforeExecuted ==
  [][/\ pc' \in ExecutorNodes =>
          /\ pc = "classifier_router"
          /\ plan' = plan
          /\ current_step_index' = current_step_index
     /\ pc' = "classifier_router" =>
          /\ pc = "classifier"
          /\ current_step_index' = current_step_index
          /\ InRange(plan, current_step_index) =>
                /\ CursorStep'.id = CursorStep.id
                /\ CursorStep'.task_type \in TaskCategory]_vars

C31_Witness ==
  /\ pc \in ExecutorNodes
  /\ InRange(plan, current_step_index)
  /\ CursorStep.retry_count = 1
  /\ CursorStep.status = "pending"
  /\ CursorStep.task_type \in TaskCategory
  /\ dispatches[current_step_index + 1] = 1

\* The action reflection_node returned in the step that just ended, read off
\* the message it appended with it.
ActionJustWritten ==
  IF LastMessage = "retrying subtask" THEN "retry_subtask"
  ELSE IF LastMessage = "replan request" THEN "replan"
  ELSE "fail"

\* C32: when reflection_router reads next_action, the value is the one the
\* reflection_node invocation just before it wrote, never an absent or an
\* older value.
C32_RouterReadsFreshAction ==
  pc = "reflection_router" => next_action = ActionJustWritten

C35_DispatchesBoundedByRetries ==
  \A i \in DOMAIN plan :
    /\ dispatches[i] <= plan[i].max_retries + 1
    /\ dispatches[i] <= plan[i].retry_count + 1

\* C36: every run ends, because no cycle of the loop is free: whenever a
\* router sends the run back to the classifier, the step under the cursor
\* either has never been dispatched (progress to a new step) or has had one
\* Level-1 retry charged for each dispatch it already had.
C36_EveryCycleConsumesBudget ==
  [][(/\ pc \in {"executor_router", "reflection_router"}
      /\ pc' = "classifier"
      /\ InRange(plan, current_step_index))
     => dispatches[current_step_index + 1] <= CursorStep.retry_count]_vars

\* C37: every step below the cursor is completed and has its result set,
\* every step above the cursor is pending and has no result; a run that
\* ends with the cursor at the length of a non-empty plan has every step
\* completed.
C37_CompletedBelowPendingAbove ==
  /\ \A i \in DOMAIN plan :
       /\ i < current_step_index + 1
            => (plan[i].status = "completed" /\ plan[i].result # "None")
       /\ i > current_step_index + 1
            => (plan[i].status = "pending" /\ plan[i].result = "None")
  /\ (pc = "__end__" /\ Len(plan) > 0 /\ current_step_index = Len(plan))
       => AllCompleted

C37_Witness ==
  /\ pc = "__end__"
  /\ Len(plan) = 2
  /\ current_step_index = 2
  /\ plan[1].result = "output"
  /\ plan[2].result = "output"

\* C38: every label a routing function returns is a key of the path map of
\* the conditional edge it serves, in every reachable state and for each of
\* the three Code-to-MCP modes.
C38_LabelsAreMapKeys ==
  /\ pc = "classifier_router"
       => \A mode \in CodeToMCPMode :
            dynamic_router_node(plan, current_step_index, settings, mode)
              \in DOMAIN ClassifierPathMap
  /\ pc = "executor_router"
       => executor_router(plan, current_step_index) \in DOMAIN ExecutorPathMap
  /\ pc = "reflection_router"
       => reflection_router(next_action) \in DOMAIN ReflectionPathMap

C38_Witness ==
  /\ pc = "code2mcp_executor"
  /\ settings.ENABLE_CODE2MCP
  /\ InRange(plan, current_step_index)
  /\ CursorStep.task_type = "code_to_mcp"
  /\ dispatches[current_step_index + 1] = 0

\* C39: the classifier, every executor adapter and reflection change only
\* the step under the cursor: the plan keeps its length and every other
\* step keeps every field.
C39_OnlyCursorStepMutated ==
  [][(pc \in ExecutorNodes \cup {"classifier", "reflection"})
      => /\ Len(plan') = Len(plan)
         /\ \A i \in DOMAIN plan :
              i # current_step_index + 1 => plan'[i] = plan[i]]_vars

C39_Witness ==
  /\ pc = "reflection_router"
  /\ Len(plan) = 2
  /\ current_step_index = 0
  /\ plan[1].retry_count = 1
  /\ plan[1].requirements # plan[2].requirements
  /\ plan[2].task_type = "None"
  /\ plan[2].retry_count = 0

\* ------------------------------------------------- MCPSource server cache
\* One MCPSource of the global WebMCPService, its cache file and the clock.
\* Times are whole hours.  A server list is a sequence of server names.
MaxClock == 48
TickHours == 12
CACHE_DURATION_HOURS == 24

ServerLists == {<<>>, <<"s1">>, <<"s2">>}

Clock == {t \in 0..MaxClock : t % TickHours = 0}

\* What the path cache_file holds: nothing, something json.load rejects, or
\* what _save_cache_to_file writes.
FileContents ==
  {NoFile, [kind |-> "unreadable", cache_time |-> Absent, servers |-> <<>>]}
    \cup [kind : {"json"}, cache_time : Clock, servers : ServerLists]

Unexpired(time, clock) ==
  time # Absent /\ clock - time < CACHE_DURATION_HOURS

is_cache_valid(c, time, clock) == c # <<>> /\ Unexpired(time, clock)

\* The cache and cache_time _load_cache_from_file leaves, given the file.
\* A missing file and a file json.load rejects change nothing; a readable
\* file sets cache_time and, when that time is unexpired, the cache.
load_cache_from_file(file, c, time, clock) ==
  IF file.kind # "json" THEN [cache |-> c, cache_time |-> time]
  ELSE LET loaded_time == IF file.cache_time # Absent THEN file.cache_time
                          ELSE time IN
       IF Unexpired(loaded_time, clock)
       THEN [cache |-> file.servers, cache_time |-> loaded_time]
       ELSE [cache |-> c, cache_time |-> loaded_time]

\* The file _save_cache_to_file leaves: written, left alone when it cannot
\* be opened, or cut short when the dump raises after the file was opened.
SaveOutcomes == {"written", "open failed", "dump failed"}

save_cache_to_file(file, c, time, outcome) ==
  IF outcome = "written"
  THEN [kind |-> "json", cache_time |-> time, servers |-> c]
  ELSE IF outcome = "dump failed"
  THEN [kind |-> "unreadable", cache_time |-> Absent, servers |-> <<>>]
  ELSE file

\* Mutant: the result of the fetch replaces the cache even when it is empty.
CacheAfterFetch_unguarded(c, servers) == servers

\* The `if servers:` guard of get_servers around the cache update.
CacheAfterFetch(c, servers) == IF servers # <<>> THEN servers ELSE c

\* get_servers step 2 runs only for an empty memory cache.
ConsultsFile(fr, c) == ~fr /\ c = <<>>

workflowVars == <<pc, plan, current_step_index, messages, next_action,
                  plan_retry_count, plan_status, settings,
                  keepsUndeclaredKeys, nextId, dispatches, code2mcp_failed,
                  run, other>>

\* get_servers up to its first await: the memory check, the file check, and
\* either a return or the start of the network fetch.
get_servers_call ==
  /\ mcp_pc = "idle"
  /\ \E fr \in BOOLEAN :
       /\ force_refresh' = fr
       /\ IF ~fr /\ is_cache_valid(cache, cache_time, now)
          THEN /\ returned' = cache
               /\ io' = <<>>
               /\ mcp_pc' = "idle"
               /\ UNCHANGED <<cache, cache_time>>
          ELSE IF ConsultsFile(fr, cache)
          THEN LET l == load_cache_from_file(cache_file, cache, cache_time,
                                             now) IN
               /\ cache' = l.cache
               /\ cache_time' = l.cache_time
               /\ io' = IF cache_file.kind = "absent" THEN <<>>
                        ELSE <<"file read">>
               /\ IF is_cache_valid(l.cache, l.cache_time, now)
                  THEN returned' = l.cache /\ mcp_pc' = "idle"
                  ELSE returned' = returned /\ mcp_pc' = "fetching"
          ELSE /\ io' = <<>>
               /\ mcp_pc' = "fetching"
               /\ UNCHANGED <<cache, cache_time, returned>>
  /\ UNCHANGED <<cache_file, now, fetched, workflowVars>>

\* fetch_servers returns: a list of servers, or the empty list when the
\* network call failed or the source lists nothing.
get_servers_fetched ==
  /\ mcp_pc = "fetching"
  /\ \E servers \in ServerLists, outcome \in SaveOutcomes :
       /\ fetched' = servers
       /\ cache' = CacheAfterFetch(cache, servers)
       /\ IF servers # <<>>
          THEN /\ cache_time' = now
               /\ cache_file' = save_cache_to_file(cache_file, cache', now,
                                                    outcome)
               /\ io' = io \o <<"fetch", "file write">>
          ELSE /\ io' = io \o <<"fetch">>
               /\ UNCHANGED <<cache_time, cache_file>>
       /\ returned' = cache'
  /\ mcp_pc' = "idle"
  /\ UNCHANGED <<now, force_refresh, workflowVars>>

Tick ==
  /\ now + TickHours <= MaxClock
  /\ now' = now + TickHours
  /\ UNCHANGED <<cache, cache_time, cache_file, mcp_pc, force_refresh,
                 fetched, returned, io, workflowVars>>

\* Another instance of the source refreshes the shared cache file.
OtherInstanceSaves ==
  /\ \E servers \in ServerLists \ {<<>>} :
       cache_file' = save_cache_to_file(cache_file, servers, now, "written")
  /\ UNCHANGED <<cache, cache_time, now, mcp_pc, force_refresh, fetched,
                 returned, io, workflowVars>>

\* MCPSource.__init__ at hour 0: an empty cache, then the cache file, if
\* any, is loaded.  No graph is running.
MCPSourceInit ==
  /\ now = 0
  /\ cache_file \in {f \in FileContents : f.cache_time \in {Absent, 0}}
  /\ LET l == load_cache_from_file(cache_file, <<>>, Absent, now) IN
       cache = l.cache /\ cache_time = l.cache_time
  /\ mcp_pc = "idle"
  /\ force_refresh = FALSE
  /\ fetched = <<>>
  /\ returned = <<>>
  /\ io = <<>>
  /\ pc = "none"
  /\ plan = <<>>
  /\ current_step_index = 0
  /\ messages = <<>>
  /\ next_action = "absent"
  /\ plan_retry_count = Absent
  /\ plan_status = "None"
  /\ settings = [MAX_SUBTASK_RETRIES |-> MAX_SUBTASK_RETRIES,
                 MAX_PLAN_RETRIES |-> MAX_PLAN_RETRIES,
                 ENABLE_CODE2MCP |-> FALSE]
  /\ keepsUndeclaredKeys = FALSE
  /\ nextId = 0
  /\ dispatches = <<>>
  /\ code2mcp_failed = FALSE
  /\ run = 1
  /\ other = NoRun

MCPSourceNext ==
  \/ get_servers_call
  \/ get_servers_fetched
  \/ Tick
  \/ OtherInstanceSaves

MCPSourceSpec == MCPSourceInit /\ [][MCPSourceNext]_vars

MCPTypeOK ==
  /\ cache \in ServerLists
  /\ cache_time \in Clock \cup {Absent}
  /\ cache_file \in FileContents
  /\ now \in Clock
  /\ mcp_pc \in {"idle", "fetching"}
  /\ returned \in ServerLists

\* The cache file holds an unexpired, non-empty server list.
FileValid(file, clock) ==
  /\ file.kind = "json"
  /\ Unexpired(file.cache_time, clock)
  /\ file.servers # <<>>

\* A step of the source that is the first part of a get_servers call.
IsGetServersCall ==
  mcp_pc = "idle" /\ now' = now /\ cache_file' = cache_file

\* C34: a get_servers call with force_refresh = False follows the three
\* levels of its docstring: a valid memory cache is returned with no file
\* read and no fetch; with the memory cache not valid and the file cache
\* valid the servers of the file are loaded and returned with no fetch; the
\* network is fetched only when neither is valid, and a fetch that brings
\* servers makes them the cache and sets cache_time to the present.
C34_ThreeLevelCachePolicy ==
  [][/\ (IsGetServersCall /\ ~force_refresh') =>
          /\ is_cache_valid(cache, cache_time, now)
               => (mcp_pc' = "idle" /\ returned' = cache /\ io' = <<>>)
          /\ (~is_cache_valid(cache, cache_time, now)
                /\ FileValid(cache_file, now))
               => /\ mcp_pc' = "idle"
                  /\ cache' = cache_file.servers
                  /\ returned' = cache_file.servers
          /\ mcp_pc' = "fetching"
               => /\ ~is_cache_valid(cache, cache_time, now)
                  /\ ~FileValid(cache_file, now)
     /\ (mcp_pc = "fetching" /\ mcp_pc' = "idle" /\ ~force_refresh
           /\ cache' # cache)
          => (cache_time' = now /\ returned' = cache')]_vars

====
